---------------------------- MODULE Spec2Model ----------------------------
(***************************************************************************)
(* Column-mapping engine of the Lead Navigator backend                     *)
(* (backend/ai_assistant.py: suggest_column_mapping, _fallback_mapping,    *)
(* _best_match, _infer_content, _standard_fields, _extract_json) and the   *)
(* part of the /suggest-mapping endpoint (backend/main.py) that reports    *)
(* the confidence of a suggested mapping.                                  *)
(*                                                                         *)
(* Strings are TLA+ strings; a character is a string of length 1 and       *)
(* SubSeq(s, i, i) is the i-th character of s.                             *)
(***************************************************************************)
EXTENDS Integers, Sequences, FiniteSets, TLC

(***************************************************************************)
(* Optional values (Optional[str], Optional[pd.DataFrame], a JSON null, a  *)
(* NaN cell): None is the empty tuple and a present value v is <<v>>.      *)
(***************************************************************************)
None == <<>>
Some(v) == <<v>>
Get(o) == o[1]

(***************************************************************************)
(* str.lower(), re.sub(r'[^a-z0-9]', '', s), `k in s`                       *)
(***************************************************************************)
UpperCase == "ABCDEFGHIJKLMNOPQRSTUVWXYZ"
LowerCase == "abcdefghijklmnopqrstuvwxyz"
Digits == "0123456789"

CharAt(s, i) == SubSeq(s, i, i)

CharIn(c, alphabet) == \E i \in 1..Len(alphabet) : CharAt(alphabet, i) = c

\* The strings of this module are ASCII.  Two characters outside ASCII have
\* a lowercase form with an ASCII letter in it: U+0130 (capital I with dot
\* above) becomes "i" followed by U+0307 (combining dot above), and U+212A
\* (Kelvin sign) becomes "k".  "^" stands for U+0130 and "~" for U+0307.
DottedCapitalI == "^"
CombiningDot == "~"

LowerChar(c) ==
    IF CharIn(c, UpperCase)
    THEN CharAt(LowerCase, CHOOSE i \in 1..Len(UpperCase) : CharAt(UpperCase, i) = c)
    ELSE IF c = DottedCapitalI THEN "i" \o CombiningDot
    ELSE c

RECURSIVE lower(_)
lower(s) == IF s = "" THEN "" ELSE LowerChar(Head(s)) \o lower(Tail(s))

IsAlnum(c) == CharIn(c, LowerCase) \/ CharIn(c, Digits)

RECURSIVE StripNonAlnum(_)
StripNonAlnum(s) ==
    IF s = "" THEN ""
    ELSE (IF IsAlnum(Head(s)) THEN Head(s) ELSE "") \o StripNonAlnum(Tail(s))

\* the normalization without the lowercasing
CleanNoLower(col) == StripNonAlnum(col)

\* clean = re.sub(r'[^a-z0-9]', '', col.lower())
Clean(col) == StripNonAlnum(lower(col))

\* Python's `k in s` for strings
Contains(s, k) ==
    \E i \in 1..(Len(s) - Len(k) + 1) : SubSeq(s, i, i + Len(k) - 1) = k

(***************************************************************************)
(* difflib.SequenceMatcher(None, a, b).ratio() with no junk (autojunk only *)
(* acts on sequences of 200 or more elements).  Positions are 1-based and  *)
(* ranges are half-open: [alo, ahi) and [blo, bhi).                        *)
(***************************************************************************)
RECURSIVE CommonLen(_, _, _, _, _, _)
\* length of the longest common run of a[i..] and b[j..] inside the ranges
CommonLen(a, b, i, j, ahi, bhi) ==
    IF i < ahi /\ j < bhi /\ CharAt(a, i) = CharAt(b, j)
    THEN 1 + CommonLen(a, b, i + 1, j + 1, ahi, bhi)
    ELSE 0

Max(S) == CHOOSE m \in S : \A n \in S : n <= m
Min(S) == CHOOSE m \in S : \A n \in S : m <= n

\* find_longest_match: the longest block; of those the earliest in a; of
\* those the earliest in b.  <<i, j, k>> with k = 0 when nothing matches.
find_longest_match(a, b, alo, ahi, blo, bhi) ==
    LET len == [p \in (alo..(ahi - 1)) \X (blo..(bhi - 1)) |->
                    CommonLen(a, b, p[1], p[2], ahi, bhi)]
        k == Max({0} \cup {len[p] : p \in DOMAIN len})
    IN  IF k = 0 THEN <<alo, blo, 0>>
        ELSE LET i == Min({p[1] : p \in {q \in DOMAIN len : len[q] = k}})
                 j == Min({p[2] : p \in {q \in DOMAIN len : len[q] = k /\ q[1] = i}})
             IN  <<i, j, k>>

RECURSIVE MatchedChars(_, _, _, _, _, _)
\* sum of the sizes of get_matching_blocks() over the ranges
MatchedChars(a, b, alo, ahi, blo, bhi) ==
    IF alo >= ahi \/ blo >= bhi THEN 0
    ELSE LET m == find_longest_match(a, b, alo, ahi, blo, bhi)
         IN  IF m[3] = 0 THEN 0
             ELSE m[3]
                  + MatchedChars(a, b, alo, m[1], blo, m[2])
                  + MatchedChars(a, b, m[1] + m[3], ahi, m[2] + m[3], bhi)

\* ratio() = 2.0 * matches / (len(a) + len(b)), 1.0 when both are empty;
\* kept as the fraction <<numerator, denominator>>.
ratio(a, b) ==
    IF Len(a) + Len(b) = 0 THEN <<1, 1>>
    ELSE <<2 * MatchedChars(a, b, 1, Len(a) + 1, 1, Len(b) + 1), Len(a) + Len(b)>>

\* p > q for fractions with positive denominators
Greater(p, q) == p[1] * q[2] > q[1] * p[2]

(***************************************************************************)
(* _standard_fields                                                        *)
(***************************************************************************)
buyers ==
    [required |-> <<"email", "name", "order_date", "revenue">>,
     optional |-> <<"product", "quantity", "customer_id", "phone", "address", "city",
                    "state", "country", "zip_code", "payment_method", "order_id",
                    "status", "discount", "tax", "shipping_cost", "net_worth", "income",
                    "age_range", "gender", "company_name", "company_revenue",
                    "job_title", "department", "seniority_level">>]

visitors ==
    [required |-> <<"email", "visit_date">>,
     optional |-> <<"source", "campaign", "device", "page_url", "session_id", "referrer",
                    "utm_source", "utm_medium", "utm_campaign", "browser", "os",
                    "ip_address", "location", "duration", "event_type", "pixel_id",
                    "uuid", "user_agent">>]

\* ftype: the file_type argument
_standard_fields(ftype) == IF ftype = "buyers" THEN buyers ELSE visitors

\* all_fields = std["required"] + std["optional"]
AllFields(ftype) ==
    _standard_fields(ftype).required \o _standard_fields(ftype).optional

Range(seq) == {seq[i] : i \in 1..Len(seq)}

(***************************************************************************)
(* re.search for the patterns of _infer_content.  A pattern is a sequence  *)
(* of items [set, q]: one character of `set`, taken once ("1"), at most    *)
(* once ("?") or once or more ("+").                                       *)
(***************************************************************************)
Whitespace == " \t\n\r\f"

One(set) == [set |-> set, q |-> "1"]
Opt(set) == [set |-> set, q |-> "?"]
Plus(set) == [set |-> set, q |-> "+"]
Times(item, n) == [i \in 1..n |-> item]

RECURSIVE MatchAt(_, _, _, _)
\* the items pat[k..] match text at position i
MatchAt(pat, k, text, i) ==
    IF k > Len(pat) THEN TRUE
    ELSE LET here == i <= Len(text) /\ CharIn(CharAt(text, i), pat[k].set)
         IN  CASE pat[k].q = "1" -> here /\ MatchAt(pat, k + 1, text, i + 1)
               [] pat[k].q = "?" -> \/ here /\ MatchAt(pat, k + 1, text, i + 1)
                                    \/ MatchAt(pat, k + 1, text, i)
               [] pat[k].q = "+" -> here /\ (\/ MatchAt(pat, k, text, i + 1)
                                             \/ MatchAt(pat, k + 1, text, i + 1))

\* re.search(p1|p2|..., text)
re_search(alternatives, text) ==
    \E pat \in alternatives : \E i \in 1..(Len(text) + 1) : MatchAt(pat, 1, text, i)

\* r"\+\d|\d{3}[-.\s]?\d{3}[-.\s]?\d{4}"
PhonePattern ==
    { <<One("+"), One(Digits)>>,
      Times(One(Digits), 3) \o <<Opt("-." \o Whitespace)>> \o
      Times(One(Digits), 3) \o <<Opt("-." \o Whitespace)>> \o
      Times(One(Digits), 4) }

\* r"\d{4}-\d{2}-\d{2}|\d{2}/\d{2}/\d{4}"
DatePattern ==
    { Times(One(Digits), 4) \o <<One("-")>> \o Times(One(Digits), 2) \o
      <<One("-")>> \o Times(One(Digits), 2),
      Times(One(Digits), 2) \o <<One("/")>> \o Times(One(Digits), 2) \o
      <<One("/")>> \o Times(One(Digits), 4) }

\* r"\$|\d+k|\d+m"
MoneyPattern ==
    { <<One("$")>>, <<Plus(Digits), One("k")>>, <<Plus(Digits), One("m")>> }

(***************************************************************************)
(* _infer_content(series, fields).  A series is a sequence of cells, each  *)
(* None (NaN) or Some(string).                                             *)
(***************************************************************************)
dropna(series) == SelectSeq(series, LAMBDA v : v # None)

HeadCount == 5

head(series, n) == SubSeq(series, 1, IF Len(series) < n THEN Len(series) ELSE n)

RECURSIVE join(_, _)
\* sep.join(str(v) for v in vals)
join(sep, vals) ==
    IF Len(vals) = 0 THEN ""
    ELSE IF Len(vals) = 1 THEN Get(vals[1])
    ELSE Get(vals[1]) \o sep \o join(sep, Tail(vals))

_infer_content(series, fields) ==
    LET vals == head(dropna(series), HeadCount)
        text == lower(join(" ", vals))
    IN  IF vals = <<>> THEN None
        ELSE IF Contains(text, "@") /\ "email" \in Range(fields) THEN Some("email")
        ELSE IF re_search(PhonePattern, text) /\ "phone" \in Range(fields)
             THEN Some("phone")
        ELSE IF re_search(DatePattern, text)
             THEN Some(IF "order_date" \in Range(fields) THEN "order_date"
                       ELSE "visit_date")
        ELSE IF re_search(MoneyPattern, text) /\ "revenue" \in Range(fields)
             THEN Some("revenue")
        ELSE IF Contains(text, "http") \/ Contains(text, "www.")
             THEN Some(IF "page_url" \in Range(fields) THEN "page_url" ELSE "referrer")
        ELSE None

(***************************************************************************)
(* _best_match(col, fields, sample).  sample is None or Some(frame), a     *)
(* frame being a function from its column names to their series.           *)
(***************************************************************************)
\* a threshold of 0.85
ThresholdHigh == <<85, 100>>

\* if score > 0.82
Threshold == <<82, 100>>

\* the fuzzy loop without `if score > 0.82: return f`
RECURSIVE FuzzyLoopNoReturn(_, _, _, _, _)
FuzzyLoopNoReturn(clean, fields, i, best, best_score) ==
    IF i > Len(fields) THEN <<"best", best, best_score>>
    ELSE LET f == fields[i]
             score == ratio(clean, Clean(f))
             better == Greater(score, best_score)
         IN  FuzzyLoopNoReturn(clean, fields, i + 1,
                               IF better THEN f ELSE best,
                               IF better THEN score ELSE best_score)

\* the fuzzy loop returning the best of the fields that cross the threshold
FuzzyLoopBestCrossing(clean, fields, i, best, best_score) ==
    LET all == FuzzyLoopNoReturn(clean, fields, i, best, best_score)
    IN  IF Greater(all[3], Threshold) THEN <<"return", all[2]>> ELSE all

\* the fuzzy loop with `if score >= best_score`: of equal scores the last wins
RECURSIVE FuzzyLoopLastBest(_, _, _, _, _)
FuzzyLoopLastBest(clean, fields, i, best, best_score) ==
    IF i > Len(fields) THEN <<"best", best, best_score>>
    ELSE LET f == fields[i]
             score == ratio(clean, Clean(f))
             better == ~Greater(best_score, score)
         IN  IF Greater(score, Threshold) THEN <<"return", f>>
             ELSE FuzzyLoopLastBest(clean, fields, i + 1,
                                    IF better THEN f ELSE best,
                                    IF better THEN score ELSE best_score)

\* The fuzzy loop over fields[i..]: <<"return", f>> when a score crosses the
\* threshold, else <<"best", best, best_score>> after the last field.
RECURSIVE FuzzyLoop(_, _, _, _, _)
FuzzyLoop(clean, fields, i, best, best_score) ==
    IF i > Len(fields) THEN <<"best", best, best_score>>
    ELSE LET f == fields[i]
             score == ratio(clean, Clean(f))
             better == Greater(score, best_score)
         IN  IF Greater(score, Threshold) THEN <<"return", f>>
             ELSE FuzzyLoop(clean, fields, i + 1,
                            IF better THEN f ELSE best,
                            IF better THEN score ELSE best_score)

\* the keyword table with the income and net_worth entries before revenue
boostsIncomeFirst ==
    << <<"email", <<"email", "mail", "sha256", "hem">> >>,
       <<"phone", <<"phone", "mobile", "cell", "number", "direct", "wireless",
                    "landline">> >>,
       <<"name", <<"name", "first", "last", "full">> >>,
       <<"address", <<"address", "street", "addr">> >>,
       <<"city", <<"city", "town">> >>,
       <<"state", <<"state", "province">> >>,
       <<"zip_code", <<"zip", "postal", "postcode">> >>,
       <<"net_worth", <<"net", "worth">> >>,
       <<"income", <<"income", "salary">> >>,
       <<"revenue", <<"revenue", "worth", "income", "amount", "price">> >>,
       <<"company_name", <<"company", "business", "org">> >>,
       <<"job_title", <<"job", "title", "role", "position">> >>,
       <<"age_range", <<"age", "dob">> >>,
       <<"gender", <<"gender", "sex">> >> >>

boosts ==
    << <<"email", <<"email", "mail", "sha256", "hem">> >>,
       <<"phone", <<"phone", "mobile", "cell", "number", "direct", "wireless",
                    "landline">> >>,
       <<"name", <<"name", "first", "last", "full">> >>,
       <<"address", <<"address", "street", "addr">> >>,
       <<"city", <<"city", "town">> >>,
       <<"state", <<"state", "province">> >>,
       <<"zip_code", <<"zip", "postal", "postcode">> >>,
       <<"revenue", <<"revenue", "worth", "income", "amount", "price">> >>,
       <<"company_name", <<"company", "business", "org">> >>,
       <<"job_title", <<"job", "title", "role", "position">> >>,
       <<"age_range", <<"age", "dob">> >>,
       <<"gender", <<"gender", "sex">> >>,
       <<"net_worth", <<"net", "worth">> >>,
       <<"income", <<"income", "salary">> >> >>

\* for field, kws in boosts.items(): the entries whose field is a candidate
\* and one of whose keywords occurs in clean
BoostHits(clean, fields) ==
    {i \in 1..Len(boosts) :
        /\ boosts[i][1] \in Range(fields)
        /\ \E k \in Range(boosts[i][2]) : Contains(clean, k)}

\* _best_match without the keyword layer
_best_match_no_boost(col, fields, sample) ==
    LET clean == Clean(col)
        fuzzy == FuzzyLoop(clean, fields, 1, fields[1], <<0, 1>>)
        inferred == IF sample # None /\ col \in DOMAIN Get(sample)
                    THEN _infer_content(Get(sample)[col], fields) ELSE None
    IN  IF fuzzy[1] = "return" THEN fuzzy[2]
        ELSE IF inferred # None /\ Get(inferred) # "" THEN Get(inferred)
        ELSE fuzzy[2]

\* _best_match with the keyword layer before content inference
_best_match_keywords_first(col, fields, sample) ==
    LET clean == Clean(col)
        fuzzy == FuzzyLoop(clean, fields, 1, fields[1], <<0, 1>>)
        inferred == IF sample # None /\ col \in DOMAIN Get(sample)
                    THEN _infer_content(Get(sample)[col], fields) ELSE None
        hits == BoostHits(clean, fields)
    IN  IF fuzzy[1] = "return" THEN fuzzy[2]
        ELSE IF hits # {} THEN boosts[Min(hits)][1]
        ELSE IF inferred # None /\ Get(inferred) # "" THEN Get(inferred)
        ELSE fuzzy[2]

\* _best_match returning the last keyword entry that hits
_best_match_last_boost(col, fields, sample) ==
    LET clean == Clean(col)
        fuzzy == FuzzyLoop(clean, fields, 1, fields[1], <<0, 1>>)
        inferred == IF sample # None /\ col \in DOMAIN Get(sample)
                    THEN _infer_content(Get(sample)[col], fields) ELSE None
        hits == BoostHits(clean, fields)
    IN  IF fuzzy[1] = "return" THEN fuzzy[2]
        ELSE IF inferred # None /\ Get(inferred) # "" THEN Get(inferred)
        ELSE IF hits # {} THEN boosts[Max(hits)][1]
        ELSE fuzzy[2]

\* _best_match with content inference before the threshold's verdict
_best_match_content_first(col, fields, sample) ==
    LET clean == Clean(col)
        fuzzy == FuzzyLoop(clean, fields, 1, fields[1], <<0, 1>>)
        inferred == IF sample # None /\ col \in DOMAIN Get(sample)
                    THEN _infer_content(Get(sample)[col], fields) ELSE None
        hits == BoostHits(clean, fields)
    IN  IF inferred # None /\ Get(inferred) # "" THEN Get(inferred)
        ELSE IF fuzzy[1] = "return" THEN fuzzy[2]
        ELSE IF hits # {} THEN boosts[Min(hits)][1]
        ELSE fuzzy[2]

\* _best_match with best initialised to the last candidate
_best_match_last_default(col, fields, sample) ==
    LET clean == Clean(col)
        fuzzy == FuzzyLoop(clean, fields, 1, fields[Len(fields)], <<0, 1>>)
        inferred == IF sample # None /\ col \in DOMAIN Get(sample)
                    THEN _infer_content(Get(sample)[col], fields)
                    ELSE None
        hits == BoostHits(clean, fields)
    IN  IF fuzzy[1] = "return" THEN fuzzy[2]
        ELSE IF inferred # None /\ Get(inferred) # "" THEN Get(inferred)
        ELSE IF hits # {} THEN boosts[Min(hits)][1]
        ELSE fuzzy[2]

\* _best_match reading some column of the table when col is not in it
_best_match_any_column(col, fields, sample) ==
    LET clean == Clean(col)
        fuzzy == FuzzyLoop(clean, fields, 1, fields[1], <<0, 1>>)
        inferred == IF sample = None THEN None
                    ELSE IF col \in DOMAIN Get(sample)
                    THEN _infer_content(Get(sample)[col], fields)
                    ELSE _infer_content(
                            Get(sample)[CHOOSE c \in DOMAIN Get(sample) : TRUE],
                            fields)
        hits == BoostHits(clean, fields)
    IN  IF fuzzy[1] = "return" THEN fuzzy[2]
        ELSE IF inferred # None /\ Get(inferred) # "" THEN Get(inferred)
        ELSE IF hits # {} THEN boosts[Min(hits)][1]
        ELSE fuzzy[2]

_best_match(col, fields, sample) ==
    LET clean == Clean(col)
        fuzzy == FuzzyLoop(clean, fields, 1, fields[1], <<0, 1>>)
        inferred == IF sample # None /\ col \in DOMAIN Get(sample)
                    THEN _infer_content(Get(sample)[col], fields)
                    ELSE None
        hits == BoostHits(clean, fields)
    IN  IF fuzzy[1] = "return" THEN fuzzy[2]
        ELSE IF inferred # None /\ Get(inferred) # "" THEN Get(inferred)
        ELSE IF hits # {} THEN boosts[Min(hits)][1]
        ELSE fuzzy[2]

(***************************************************************************)
(* Python dicts keep insertion order: a dict is a sequence of <<key,       *)
(* value>> entries with pairwise distinct keys.                            *)
(***************************************************************************)
Keys(d) == {d[i][1] : i \in 1..Len(d)}
Values(d) == [i \in 1..Len(d) |-> d[i][2]]
Lookup(d, k) == d[CHOOSE i \in 1..Len(d) : d[i][1] = k][2]

\* a list of pairs instead of a dict: a repeated key adds an entry
DictSetAppend(d, k, v) == Append(d, <<k, v>>)

\* d[k] = v
DictSet(d, k, v) ==
    IF k \in Keys(d)
    THEN [i \in 1..Len(d) |-> IF d[i][1] = k THEN <<k, v>> ELSE d[i]]
    ELSE Append(d, <<k, v>>)

(***************************************************************************)
(* Inputs of the invocations explored.                                     *)
(***************************************************************************)
MaxCols == 2

ScenarioColumns == <<"Email Address", "Purchase Date", "Total $">>
ColumnNames == Range(ScenarioColumns)

ColumnLists ==
    {ScenarioColumns} \cup (UNION {[1..n -> ColumnNames] : n \in 0..MaxCols})

Categories == {"buyers", "visitors"}
FileTypes == Categories \cup {"leads"}

UrlSeries == <<Some("http://shop.example/p/1")>>
SampleSeries == {UrlSeries}

\* sample_data: None, or a frame holding some of the file's columns
SampleFrames(cols) ==
    {None} \cup {Some(f) : f \in UNION {[S -> SampleSeries] : S \in SUBSET Range(cols)}}

(***************************************************************************)
(* The external suggestion.  resp.text is a sequence of tokens: a fence    *)
(* ("```" followed by lang), prose, or the text of one JSON value.  A JSON *)
(* object is a function from its keys to None (null) or Some(string).      *)
(***************************************************************************)
Fence(lang) == [tok |-> "fence", lang |-> lang]
Prose == [tok |-> "prose"]
Json(v) == [tok |-> "json", value |-> v]

JsonObject(members) == [type |-> "object", members |-> members]
JsonArray == [type |-> "array"]

SuggestedValues ==
    {None, Some("not_a_real_field"), Some("revenue"), Some("referrer")}

ExtraKey == "Unnamed: 9"

\* objects over some of the file's columns, with or without a key that is
\* no column of the file
SuggestedObjects(cols) ==
    LET over == UNION {[S -> SuggestedValues] : S \in SUBSET Range(cols)}
    IN  over \cup
        {[k \in DOMAIN m \cup {ExtraKey} |->
             IF k = ExtraKey THEN Some("email") ELSE m[k]] : m \in over}

JsonValues(cols) == {JsonObject(m) : m \in SuggestedObjects(cols)} \cup {JsonArray}

ReplyTexts(cols) ==
    { <<>>, <<Prose>>, <<Fence("json"), Prose, Fence("")>> } \cup
    (UNION {{ <<Json(v)>>,
              <<Fence("json"), Json(v), Fence("")>>,
              <<Prose, Fence(""), Json(v), Fence(""), Prose>>,
              <<Prose, Json(v)>> } : v \in JsonValues(cols)})

(***************************************************************************)
(* _extract_json and json.loads                                            *)
(***************************************************************************)
IsFence(t) == t.tok = "fence"
IsJsonFence(t) == t.tok = "fence" /\ t.lang = "json"

\* text.split(fence)[1].split("```")[0]: what follows the first fence (the
\* first "```json" fence when json_only), up to the next fence of either kind
Fenced(text, json_only) ==
    LET first == Min({i \in 1..Len(text) :
                        IF json_only THEN IsJsonFence(text[i]) ELSE IsFence(text[i])})
        later == {i \in (first + 1)..Len(text) : IsFence(text[i])}
        stop == IF later = {} THEN Len(text) + 1 ELSE Min(later)
    IN  SubSeq(text, first + 1, stop - 1)

_extract_json(text) ==
    IF \E i \in 1..Len(text) : IsJsonFence(text[i]) THEN Fenced(text, TRUE)
    ELSE IF \E i \in 1..Len(text) : IsFence(text[i]) THEN Fenced(text, FALSE)
    ELSE text

\* json.loads: Some(value), or None for a JSONDecodeError
json_loads(json_text) ==
    IF Len(json_text) = 1 /\ json_text[1].tok = "json"
    THEN Some(json_text[1].value)
    ELSE None

(***************************************************************************)
(* _fallback_mapping and suggest_column_mapping.                           *)
(*                                                                         *)
(* _best_match reads of the sample only the series of its own column, so   *)
(* its results for the taxonomies are tabulated once per (column, file     *)
(* type, series of the column).                                            *)
(***************************************************************************)
\* sample[col] when `sample is not None and col in sample.columns`
SeriesOf(col, sample) ==
    IF sample # None /\ col \in DOMAIN Get(sample) THEN Some(Get(sample)[col]) ELSE None

BestMatchTable ==
    [col \in ColumnNames, ftype \in FileTypes,
     series \in {None} \cup {Some(x) : x \in SampleSeries} |->
        _best_match(col, AllFields(ftype),
                    IF series = None THEN None
                    ELSE Some([c \in {col} |-> Get(series)]))]

\* _best_match(col, all_fields, sample) for all_fields of ftype
BestMatch(col, ftype, sample) ==
    BestMatchTable[col, ftype, SeriesOf(col, sample)]

RECURSIVE FallbackFrom(_, _, _, _, _)
FallbackFrom(cols, i, ftype, sample, d) ==
    IF i > Len(cols) THEN d
    ELSE FallbackFrom(cols, i + 1, ftype, sample,
                      DictSet(d, cols[i], Some(BestMatch(cols[i], ftype, sample))))

\* {col: _best_match(col, all_fields, sample) for col in columns}
_fallback_mapping(cols, ftype, sample) ==
    FallbackFrom(cols, 1, ftype, sample, <<>>)

\* ai_map.get(col)
AiGet(members, col) == IF col \in DOMAIN members THEN members[col] ELSE None

\* final[col] = ai_map.get(col), without the membership test
ValidatedTrusting(field, col, ftype, sample) == field

\* field if field in all_fields else _best_match(col, all_fields, sample_data)
Validated(field, col, ftype, sample) ==
    IF field # None /\ Get(field) \in Range(AllFields(ftype))
    THEN field
    ELSE Some(BestMatch(col, ftype, sample))

RECURSIVE ValidateFrom(_, _, _, _, _, _)
\* for col in columns: final[col] = ...
ValidateFrom(cols, i, members, ftype, sample, final) ==
    IF i > Len(cols) THEN final
    ELSE ValidateFrom(cols, i + 1, members, ftype, sample,
                      DictSet(final, cols[i],
                              Validated(AiGet(members, cols[i]), cols[i],
                                        ftype, sample)))

\* an except branch that returns an empty dict instead of the fallback
HandleReplyEmptyOnError(text, cols, ftype, sample) ==
    LET parsed == json_loads(_extract_json(text))
    IN  IF parsed = None
        THEN [parsed |-> None, error |-> Some("JSONDecodeError"), result |-> <<>>]
        ELSE IF Get(parsed).type # "object" /\ cols # <<>>
        THEN [parsed |-> parsed, error |-> Some("AttributeError"), result |-> <<>>]
        ELSE [parsed |-> parsed, error |-> None,
              result |-> IF Get(parsed).type = "object"
                         THEN ValidateFrom(cols, 1, Get(parsed).members,
                                           ftype, sample, <<>>)
                         ELSE <<>>]

\* final starts as a copy of the suggestion instead of an empty dict: a key of
\* the suggestion that names no column stays in the result
HandleReplySeeded(text, cols, ftype, sample) ==
    LET parsed == json_loads(_extract_json(text))
    IN  IF parsed = None
        THEN [parsed |-> None, error |-> Some("JSONDecodeError"),
              result |-> _fallback_mapping(cols, ftype, sample)]
        ELSE IF Get(parsed).type # "object" /\ cols # <<>>
        THEN [parsed |-> parsed, error |-> Some("AttributeError"),
              result |-> _fallback_mapping(cols, ftype, sample)]
        ELSE [parsed |-> parsed, error |-> None,
              result |-> IF Get(parsed).type = "object"
                         THEN ValidateFrom(cols, 1, Get(parsed).members,
                                  ftype, sample,
                                  IF ExtraKey \in DOMAIN Get(parsed).members
                                  THEN << <<ExtraKey,
                                            Get(parsed).members[ExtraKey]>> >>
                                  ELSE <<>>)
                         ELSE <<>>]

\* The try block from resp.text on: the parsed reply (ai_map), the exception
\* caught and the dict returned.
HandleReply(text, cols, ftype, sample) ==
    LET parsed == json_loads(_extract_json(text))
    IN  IF parsed = None
        THEN [parsed |-> None, error |-> Some("JSONDecodeError"),
              result |-> _fallback_mapping(cols, ftype, sample)]
        ELSE IF Get(parsed).type # "object" /\ cols # <<>>
        THEN \* ai_map.get raises in the first iteration
             [parsed |-> parsed, error |-> Some("AttributeError"),
              result |-> _fallback_mapping(cols, ftype, sample)]
        ELSE [parsed |-> parsed, error |-> None,
              result |-> IF Get(parsed).type = "object"
                         THEN ValidateFrom(cols, 1, Get(parsed).members,
                                           ftype, sample, <<>>)
                         ELSE <<>>]

(***************************************************************************)
(* /suggest-mapping: the statistics reported with the mapping.             *)
(***************************************************************************)
\* round(mapped / total * 100, 1) in tenths of a percent, ties to even
RoundTenths(mapped, total) ==
    LET q == (mapped * 1000) \div total
        r == (mapped * 1000) % total
    IN  IF 2 * r > total THEN q + 1
        ELSE IF 2 * r < total THEN q
        ELSE IF q % 2 = 0 THEN q ELSE q + 1

\* `if v`: the value is neither None nor ""
Truthy(v) == v # None /\ Get(v) # ""

\* mapped = len([v for v in mapping.values() if v])
MappedCount(d) == Cardinality({i \in 1..Len(d) : Truthy(d[i][2])})

Statistics(d, cols) ==
    [confidence |-> IF cols # <<>> THEN RoundTenths(MappedCount(d), Len(cols)) ELSE 0,
     total_columns |-> Len(cols),
     mapped_columns |-> MappedCount(d)]

(***************************************************************************)
(* State                                                                   *)
(***************************************************************************)
(***************************************************************************)
(* Two concurrent invocations of suggest_column_mapping.  Each has its     *)
(* own frame: arguments and locals; the fields are named after the         *)
(* parameters of the operators above.                                      *)
(***************************************************************************)
Invocations == {"i1", "i2"}

IdleFrame ==
    [at |-> "idle", cols |-> <<>>, ftype |-> "buyers", sample |-> None,
     text |-> None, parsed |-> None, error |-> None, result |-> None]

PairColumnLists == {<<"Total $">>, <<"Email Address", "Purchase Date">>}

PairSamples(cols) == {None, Some([c \in Range(cols) |-> UrlSeries])}

PairReplyTexts(cols) ==
    { <<Prose>>,
      <<Json(JsonArray)>>,
      <<Json(JsonObject([c \in {} |-> None]))>>,
      <<Json(JsonObject([c \in {cols[1]} |-> Some("not_a_real_field")]))>>,
      <<Fence("json"), Json(JsonObject([c \in Range(cols) |-> Some("revenue")])),
        Fence("")>> }

(***************************************************************************)
(* The save-mapping requests.                                              *)
(***************************************************************************)
SaveRequests == {"r1", "r2"}

WorkspaceIds == {1, 2}

\* request bodies: dicts from file column to field or null
SaveMappings ==
    { <<>>,
      << <<"Email Address", Some("email")>>, <<"Total $", Some("revenue")>> >>,
      << <<"Email Address", Some("email")>> >>,
      << <<"Total $", None>> >>,
      << <<"Total $", Some("not_a_real_field")>> >> }

\* at: "idle", "validated", "queried", "done", "rejected"; status: the HTTP
\* status once known; existing: None or Some(id of the row found)
IdleSave ==
    [at |-> "idle", status |-> None, workspace_id |-> 1, ftype |-> "buyers",
     saved |-> <<>>, existing |-> None]

\* ColumnMappingCreate.validate_file_type
validate_file_type(ftype) == ftype \in {"buyers", "visitors"}

\* ColumnMappingCreate.validate_mapping: every value is a string or None
validate_mapping(d) ==
    \A i \in 1..Len(d) : d[i][2] = None \/ Len(d[i][2]) = 1

\* save_mapping without `if not mapping_data.mapping`
SaveStatusNoEmptyCheck(ftype, d) ==
    IF ~validate_file_type(ftype) \/ ~validate_mapping(d) THEN 422 ELSE 200

\* The status save_mapping answers with: 422 when the body fails the schema,
\* 400 for `if not mapping_data.mapping`, else 200.
SaveStatus(ftype, d) ==
    IF ~validate_file_type(ftype) \/ ~validate_mapping(d) THEN 422
    ELSE IF d = <<>> THEN 400
    ELSE 200

\* json.dumps(mapping) of a dict of strings to strings or None
json_dumps(d) == <<Json(JsonObject([k \in Keys(d) |-> Lookup(d, k)]))>>

\* a row of column_mappings; its id is its position in the table
NewRow(workspace_id, ftype, d) ==
    [workspace_id |-> workspace_id, ftype |-> ftype, mapping_json |-> json_dumps(d)]

\* an update that merges the new entries into the stored ones
MergeRow(row, d) ==
    LET old == Get(json_loads(row.mapping_json)).members
    IN  [row EXCEPT !.mapping_json =
            <<Json(JsonObject([k \in DOMAIN old \cup Keys(d) |->
                                 IF k \in Keys(d) THEN Lookup(d, k) ELSE old[k]]))>>]

\* existing.mapping_json = json.dumps(mapping)
UpdateRow(row, d) == [row EXCEPT !.mapping_json = json_dumps(d)]

\* the ids of the rows the filter of both queries selects
Matching(table, workspace_id, ftype) ==
    {id \in 1..Len(table) :
        table[id].workspace_id = workspace_id /\ table[id].ftype = ftype}

\* .first() without ORDER BY: None, or any of the matching rows
first(table, workspace_id, ftype) ==
    IF Matching(table, workspace_id, ftype) = {} THEN {None}
    ELSE {Some(id) : id \in Matching(table, workspace_id, ftype)}

\* what get_column_mapping can return: None, or the parsed mapping_json
get_column_mapping(table, workspace_id, ftype) ==
    {IF found = None THEN None ELSE json_loads(table[Get(found)].mapping_json) :
        found \in first(table, workspace_id, ftype)}

(***************************************************************************)
(* Invitations: create_invitation and accept_invitation.                   *)
(***************************************************************************)
AcceptRequests == {"a1", "a2"}

\* the tokens secrets.token_urlsafe(32) hands out
Tokens == {"t1", "t2"}

UserIds == {1, 2}

Roles == {"Viewer", "Analyst"}

\* the clock stops after MaxNow weeks
MaxNow == 2

\* timedelta(days=7), in weeks
InviteLifetime == 1

\* at: "idle", "called", "found", "done", "rejected"; invitation: None or
\* Some(id of the row the query returned); member: None or Some(id of the
\* WorkspaceMember returned)
IdleAccept ==
    [at |-> "idle", status |-> None, token |-> "t1", user_id |-> 1,
     invitation |-> None, member |-> None]

\* filter(Invitation.token == token, Invitation.used == False).first()
UnusedInvitation(table, token) ==
    IF \E id \in 1..Len(table) : table[id].token = token /\ ~table[id].used
    THEN {Some(id) : id \in {id \in 1..Len(table) :
                                table[id].token = token /\ ~table[id].used}}
    ELSE {None}

VARIABLES
    GEMINI_API_KEY, \* whether the credential is set (read at import)
    pc,             \* "idle", "called", "waiting", "returned", "responded"
    columns,        \* arguments of suggest_column_mapping
    file_type,
    sample_data,
    ai_map,         \* None, or Some(parsed reply)
    exc,            \* None, or Some(name of the exception caught)
    mapping,        \* None, or Some(returned dict)
    response,       \* None, or Some(statistics of the endpoint's response)
    requests,       \* number of generate_content calls this invocation issued
    bm_pc,          \* a direct call of _best_match: "idle", "called", "returned"
    bm_args,        \* None, or Some([col, fields, sample])
    bm_result,      \* None, or Some(returned field)
    calls,          \* the frames of two concurrent suggest_column_mapping calls
    column_mappings, \* the rows of the column_mappings table
    save_req,       \* the save-mapping requests: position and locals
    now,            \* datetime.utcnow(), in weeks
    invitations,    \* the table invitations: a sequence of rows
    workspace_members, \* the table workspace_members: a sequence of rows
    accept_req      \* the accept-invitation requests: position and locals

engineVars ==
    <<GEMINI_API_KEY, pc, columns, file_type, sample_data, ai_map, exc, mapping,
      response, requests>>
matcherVars == <<bm_pc, bm_args, bm_result>>
concurrentVars == <<calls>>
storeVars == <<column_mappings, save_req>>
inviteVars == <<now, invitations, workspace_members, accept_req>>
vars == <<engineVars, matcherVars, concurrentVars, storeVars, inviteVars>>

Init ==
    /\ GEMINI_API_KEY \in BOOLEAN
    /\ pc = "idle"
    /\ columns = <<>>
    /\ file_type = "buyers"
    /\ sample_data = None
    /\ ai_map = None
    /\ exc = None
    /\ mapping = None
    /\ response = None
    /\ requests = 0
    /\ bm_pc = "idle"
    /\ bm_args = None
    /\ bm_result = None
    /\ calls = [inv \in Invocations |-> IdleFrame]
    /\ column_mappings = <<>>
    /\ save_req = [r \in SaveRequests |-> IdleSave]
    /\ now = 0
    /\ invitations = <<>>
    /\ workspace_members = <<>>
    /\ accept_req = [a \in AcceptRequests |-> IdleAccept]

(***************************************************************************)
(* suggest_column_mapping                                                  *)
(***************************************************************************)
\* the endpoint calls suggest_column_mapping(columns, file_type, sample_data)
Call ==
    /\ pc = "idle"
    /\ \E cols \in ColumnLists, ft \in FileTypes :
         \E sample \in SampleFrames(cols) :
            /\ columns' = cols
            /\ file_type' = ft
            /\ sample_data' = sample
    /\ pc' = "called"
    /\ UNCHANGED <<GEMINI_API_KEY, requests, ai_map, exc, mapping, response,
                   matcherVars, concurrentVars, storeVars,
                   inviteVars>>

\* if not GEMINI_API_KEY: return _fallback_mapping(...)
ReturnFallback ==
    /\ pc = "called"
    /\ ~GEMINI_API_KEY
    /\ mapping' = Some(_fallback_mapping(columns, file_type, sample_data))
    /\ pc' = "returned"
    /\ UNCHANGED <<GEMINI_API_KEY, requests, columns, file_type, sample_data, ai_map, exc,
                   response, matcherVars, concurrentVars, storeVars,
                   inviteVars>>

\* the prompt is built and model.generate_content(prompt) is issued
Request ==
    /\ pc = "called"
    /\ GEMINI_API_KEY
    /\ requests' = requests + 1
    /\ pc' = "waiting"
    /\ UNCHANGED <<GEMINI_API_KEY, columns, file_type, sample_data, ai_map, exc,
                   mapping, response, matcherVars, concurrentVars, storeVars,
                   inviteVars>>

\* the except block going back to issue the request again
ExternalRaisesRetry ==
    /\ pc = "waiting"
    /\ exc' = Some("Exception")
    /\ pc' = "called"
    /\ UNCHANGED <<GEMINI_API_KEY, requests, columns, file_type, sample_data,
                   ai_map, mapping, response, matcherVars, concurrentVars,
                   storeVars,
                   inviteVars>>

\* generate_content or resp.text raises: except -> _fallback_mapping
ExternalRaises ==
    /\ pc = "waiting"
    /\ exc' = Some("Exception")
    /\ mapping' = Some(_fallback_mapping(columns, file_type, sample_data))
    /\ pc' = "returned"
    /\ UNCHANGED <<GEMINI_API_KEY, requests, columns, file_type, sample_data, ai_map,
                   response, matcherVars, concurrentVars, storeVars,
                   inviteVars>>

\* generate_content returns: the rest of the try block, or the except block
ExternalReplies ==
    /\ pc = "waiting"
    /\ \E text \in ReplyTexts(columns) :
         \E h \in {HandleReply(text, columns, file_type, sample_data)} :
            /\ ai_map' = h.parsed
            /\ exc' = h.error
            /\ mapping' = Some(h.result)
    /\ pc' = "returned"
    /\ UNCHANGED <<GEMINI_API_KEY, requests, columns, file_type, sample_data, response,
                   matcherVars, concurrentVars, storeVars,
                   inviteVars>>

\* the endpoint computes mapped and confidence and responds
\* The endpoint calls the engine with the header and the frame of the file it
\* read: the names are distinct and the frame has every column.
Respond ==
    /\ pc = "returned"
    /\ columns # <<>>
    /\ Cardinality(Range(columns)) = Len(columns)
    /\ sample_data # None /\ DOMAIN Get(sample_data) = Range(columns)
    /\ response' = Some(Statistics(Get(mapping), columns))
    /\ pc' = "responded"
    /\ UNCHANGED <<GEMINI_API_KEY, requests, columns, file_type, sample_data, ai_map, exc,
                   mapping, matcherVars, concurrentVars, storeVars,
                   inviteVars>>

Next ==
    \/ Call
    \/ ReturnFallback
    \/ Request
    \/ ExternalRaises
    \/ ExternalReplies
    \/ Respond

Spec == Init /\ [][Next]_vars

\* The interpreter runs the engine's and the endpoint's own steps to the end.
\* Nothing obliges the collaborator to answer: generate_content is called
\* without a timeout, so ExternalRaises and ExternalReplies get no fairness.
FairSpec ==
    Spec /\ WF_vars(ReturnFallback) /\ WF_vars(Request) /\ WF_vars(Respond)

(***************************************************************************)
(* _best_match called on its own, with candidate lists that need not be a  *)
(* taxonomy.                                                               *)
(***************************************************************************)
MatchColumns ==
    ColumnNames \cup
    {"email", "E-Mail_Address", "contact_info", "cell_no", "household_income",
     "utm_campaign", "website", "###", "email address", "EMAILADDRESS",
     "annual_salary", "net_assets", " - ", DottedCapitalI}

CandidateLists ==
    {AllFields("buyers"), AllFields("visitors"), <<"name", "city">>,
     <<"phone", "revenue", "referrer">>}

\* an address only in the sixth non-null value
LateEmailSeries ==
    <<Some("n/a"), Some("n/a"), None, Some("n/a"), Some("n/a"), Some("n/a"),
      Some("user@domain.com")>>

MatchSeries ==
    {UrlSeries,
     <<Some("user@domain.com")>>,
     <<None, Some("2024-01-05")>>,
     <<Some("555-123-4567")>>,
     <<Some("$1,200")>>,
     <<None, None>>,
     LateEmailSeries,
     <<Some("User@Domain.com"), Some("2024-01-05")>>,
     <<Some("2024-01-05"), Some("$1,200")>>}

\* sample: None, a frame without the column, or a frame with it
MatchSamples(col) ==
    {None, Some([c \in {"other"} |-> UrlSeries])}
    \cup {Some([c \in {col} |-> series]) : series \in MatchSeries}

InitMatch == Init /\ ~GEMINI_API_KEY

CallBestMatch ==
    /\ bm_pc = "idle"
    /\ \E col \in MatchColumns, fields \in CandidateLists :
         \E sample \in MatchSamples(col) :
            bm_args' = Some([col |-> col, fields |-> fields, sample |-> sample])
    /\ bm_pc' = "called"
    /\ UNCHANGED <<inviteVars, engineVars, concurrentVars, storeVars, bm_result>>

ReturnBestMatch ==
    /\ bm_pc = "called"
    /\ bm_result' = Some(_best_match(Get(bm_args).col, Get(bm_args).fields,
                                     Get(bm_args).sample))
    /\ bm_pc' = "returned"
    /\ UNCHANGED <<inviteVars, engineVars, concurrentVars, storeVars, bm_args>>

NextMatch ==
    \/ CallBestMatch
    \/ ReturnBestMatch

SpecMatch == InitMatch /\ [][NextMatch]_vars

(***************************************************************************)
(* _best_match called with a header that is a field of the category's own  *)
(* taxonomy, as _fallback_mapping calls it for a file whose headers are    *)
(* already canonical.                                                      *)
(***************************************************************************)
\* sample: None, a frame without the column, or one where it is all null
CanonicalSamples(col) ==
    {None, Some([c \in {"other"} |-> UrlSeries]),
     Some([c \in {col} |-> <<None, None>>])}

CallCanonical ==
    /\ bm_pc = "idle"
    /\ \E ftype \in Categories :
         \E col \in Range(AllFields(ftype)) :
            \E sample \in CanonicalSamples(col) :
               bm_args' = Some([col |-> col, fields |-> AllFields(ftype),
                                sample |-> sample])
    /\ bm_pc' = "called"
    /\ UNCHANGED <<inviteVars, engineVars, concurrentVars, storeVars, bm_result>>

NextCanonical ==
    \/ CallCanonical
    \/ ReturnBestMatch

SpecCanonical == InitMatch /\ [][NextCanonical]_vars

(***************************************************************************)
(* Concurrent invocations: the steps of suggest_column_mapping, one frame  *)
(* each.  GEMINI_API_KEY is the only module-level name the function reads. *)
(***************************************************************************)
Frame(inv) == calls[inv]

Invoke(inv) ==
    /\ Frame(inv).at = "idle"
    /\ \E cols \in PairColumnLists, ft \in Categories :
         \E sample \in PairSamples(cols) :
            calls' = [calls EXCEPT ![inv] =
                        [@ EXCEPT !.at = "called", !.cols = cols,
                                  !.ftype = ft, !.sample = sample]]
    /\ UNCHANGED <<inviteVars, engineVars, matcherVars, storeVars>>

\* if not GEMINI_API_KEY: return _fallback_mapping(...)
FallbackStep(inv) ==
    /\ Frame(inv).at = "called"
    /\ ~GEMINI_API_KEY
    /\ calls' = [calls EXCEPT ![inv] =
                   [@ EXCEPT !.at = "returned",
                             !.result = Some(_fallback_mapping(
                                  Frame(inv).cols, Frame(inv).ftype,
                                  Frame(inv).sample))]]
    /\ UNCHANGED <<inviteVars, engineVars, matcherVars, storeVars>>

\* model.generate_content(prompt) is issued
RequestStep(inv) ==
    /\ Frame(inv).at = "called"
    /\ GEMINI_API_KEY
    /\ calls' = [calls EXCEPT ![inv] = [@ EXCEPT !.at = "waiting"]]
    /\ UNCHANGED <<inviteVars, engineVars, matcherVars, storeVars>>

\* generate_content raises: except -> _fallback_mapping
RaiseStep(inv) ==
    /\ Frame(inv).at = "waiting"
    /\ calls' = [calls EXCEPT ![inv] =
                   [@ EXCEPT !.at = "returned",
                             !.error = Some("Exception"),
                             !.result = Some(_fallback_mapping(
                                  Frame(inv).cols, Frame(inv).ftype,
                                  Frame(inv).sample))]]
    /\ UNCHANGED <<inviteVars, engineVars, matcherVars, storeVars>>

\* resp.text arrives; json_text = _extract_json(resp.text);
\* ai_map = json.loads(json_text), or JSONDecodeError -> except
ParseStep(inv) ==
    /\ Frame(inv).at = "waiting"
    /\ \E text \in PairReplyTexts(Frame(inv).cols) :
         \E value \in {json_loads(_extract_json(text))} :
            calls' = [calls EXCEPT ![inv] =
                        IF value = None
                        THEN [@ EXCEPT !.at = "returned", !.text = Some(text),
                                       !.error = Some("JSONDecodeError"),
                                       !.result = Some(_fallback_mapping(
                                  Frame(inv).cols, Frame(inv).ftype,
                                  Frame(inv).sample))]
                        ELSE [@ EXCEPT !.at = "parsed", !.text = Some(text),
                                       !.parsed = value]]
    /\ UNCHANGED <<inviteVars, engineVars, matcherVars, storeVars>>

\* ai_map as a module-level name: the loop reads what the other invocation
\* stored there, when it has stored something
ValidateShared(inv) ==
    LET fr == Frame(inv)
        other == CHOOSE o \in Invocations : o # inv
        value == IF Frame(other).parsed # None THEN Get(Frame(other).parsed)
                 ELSE Get(fr.parsed)
    IN  IF value.type # "object" /\ fr.cols # <<>>
        THEN [fr EXCEPT !.at = "returned", !.error = Some("AttributeError"),
                        !.result = Some(_fallback_mapping(fr.cols, fr.ftype,
                                                          fr.sample))]
        ELSE [fr EXCEPT !.at = "returned",
                        !.result = Some(IF value.type = "object"
                                        THEN ValidateFrom(fr.cols, 1, value.members,
                                                 fr.ftype, fr.sample, <<>>)
                                        ELSE <<>>)]

\* the loop over the frame's own ai_map
ValidateOwn(inv) ==
    LET fr == Frame(inv)
        value == Get(fr.parsed)
    IN  IF value.type # "object" /\ fr.cols # <<>>
        THEN [fr EXCEPT !.at = "returned", !.error = Some("AttributeError"),
                        !.result = Some(_fallback_mapping(fr.cols, fr.ftype,
                                                          fr.sample))]
        ELSE [fr EXCEPT !.at = "returned",
                        !.result = Some(IF value.type = "object"
                                        THEN ValidateFrom(fr.cols, 1, value.members,
                                                 fr.ftype, fr.sample, <<>>)
                                        ELSE <<>>)]

\* final = {}; for col in columns: ...; return final, or except
ValidateStep(inv) ==
    /\ Frame(inv).at = "parsed"
    /\ calls' = [calls EXCEPT ![inv] = ValidateOwn(inv)]
    /\ UNCHANGED <<inviteVars, engineVars, matcherVars, storeVars>>

NextConcurrent ==
    \E inv \in Invocations :
        \/ Invoke(inv)
        \/ FallbackStep(inv)
        \/ RequestStep(inv)
        \/ RaiseStep(inv)
        \/ ParseStep(inv)
        \/ ValidateStep(inv)

SpecConcurrent == Init /\ [][NextConcurrent]_vars

(***************************************************************************)
(* POST /workspaces/{workspace_id}/column-mapping: save_mapping and        *)
(* crud.save_column_mapping, one session per request.                      *)
(***************************************************************************)
Req(r) == save_req[r]

\* the body is validated against ColumnMappingCreate, then
\* `if not mapping_data.mapping: raise HTTPException(400)`
SaveStart(r) ==
    /\ Req(r).at = "idle"
    /\ \E ws \in WorkspaceIds, ft \in FileTypes, d \in SaveMappings :
         save_req' = [save_req EXCEPT ![r] =
                        [at |-> IF SaveStatus(ft, d) = 200 THEN "validated"
                                ELSE "rejected",
                         status |-> IF SaveStatus(ft, d) = 200 THEN None
                                    ELSE Some(SaveStatus(ft, d)),
                         workspace_id |-> ws, ftype |-> ft, saved |-> d,
                         existing |-> None]]
    /\ UNCHANGED <<inviteVars, engineVars, matcherVars, concurrentVars, column_mappings>>

\* existing = db.query(ColumnMapping).filter(...).first()
SaveQuery(r) ==
    /\ Req(r).at = "validated"
    /\ \E found \in first(column_mappings, Req(r).workspace_id, Req(r).ftype) :
         save_req' = [save_req EXCEPT ![r].at = "queried", ![r].existing = found]
    /\ UNCHANGED <<inviteVars, engineVars, matcherVars, concurrentVars, column_mappings>>

\* if existing: update it, else db.add(new_mapping); db.commit(); the
\* endpoint then answers 200
SaveCommit(r) ==
    /\ Req(r).at = "queried"
    /\ column_mappings' =
         IF Req(r).existing # None
         THEN [column_mappings EXCEPT ![Get(Req(r).existing)] =
                  UpdateRow(column_mappings[Get(Req(r).existing)], Req(r).saved)]
         ELSE Append(column_mappings,
                     NewRow(Req(r).workspace_id, Req(r).ftype, Req(r).saved))
    /\ save_req' = [save_req EXCEPT ![r].at = "done", ![r].status = Some(200)]
    /\ UNCHANGED <<inviteVars, engineVars, matcherVars, concurrentVars>>

NextSave ==
    \E r \in SaveRequests :
        \/ SaveStart(r)
        \/ SaveQuery(r)
        \/ SaveCommit(r)

\* the engine's credential plays no part in these requests
InitSave == Init /\ ~GEMINI_API_KEY

SpecSave == InitSave /\ [][NextSave]_vars

\* One request after the other: a request starts when no other is between
\* its validation and its commit.
NoSaveInFlight ==
    \A r \in SaveRequests : Req(r).at \in {"idle", "done", "rejected"}

SaveStartSerial(r) == NoSaveInFlight /\ SaveStart(r)

NextSaveSerial ==
    \E r \in SaveRequests :
        \/ SaveStartSerial(r)
        \/ SaveQuery(r)
        \/ SaveCommit(r)

SpecSaveSerial == InitSave /\ [][NextSaveSerial]_vars

(***************************************************************************)
(* Invitations.  Each accept request runs accept_invite in a session of    *)
(* its own: the query of accept_invitation and its commit are two steps.   *)
(***************************************************************************)
Acc(a) == accept_req[a]

\* time passes
Tick ==
    /\ now < MaxNow
    /\ now' = now + 1
    /\ UNCHANGED <<engineVars, matcherVars, concurrentVars, storeVars,
                   invitations, workspace_members, accept_req>>

\* create_invitation: a fresh token, expires_at = utcnow() + 7 days
CreateInvitation ==
    /\ \E token \in Tokens, ws \in WorkspaceIds, role \in Roles :
         /\ \A id \in 1..Len(invitations) : invitations[id].token # token
         /\ invitations' =
              Append(invitations,
                     [workspace_id |-> ws, role |-> role, token |-> token,
                      expires_at |-> now + InviteLifetime, used |-> FALSE])
    /\ UNCHANGED <<engineVars, matcherVars, concurrentVars, storeVars, now,
                   workspace_members, accept_req>>

\* POST /invitations/accept/{invite_token} by an authenticated user
AcceptStart(a) ==
    /\ Acc(a).at = "idle"
    /\ \E token \in Tokens, user \in UserIds :
         accept_req' = [accept_req EXCEPT ![a].at = "called",
                                          ![a].token = token,
                                          ![a].user_id = user]
    /\ UNCHANGED <<engineVars, matcherVars, concurrentVars, storeVars, now,
                   invitations, workspace_members>>

\* the query, then `if not invitation or invitation.expires_at <
\* datetime.utcnow(): return None`, which the endpoint answers with 400
AcceptQuery(a) ==
    /\ Acc(a).at = "called"
    /\ \E found \in UnusedInvitation(invitations, Acc(a).token) :
         accept_req' =
            IF found = None \/ invitations[Get(found)].expires_at < now
            THEN [accept_req EXCEPT ![a].at = "rejected",
                                    ![a].status = Some(400)]
            ELSE [accept_req EXCEPT ![a].at = "found",
                                    ![a].invitation = found]
    /\ UNCHANGED <<engineVars, matcherVars, concurrentVars, storeVars, now,
                   invitations, workspace_members>>

\* db.add(member); invitation.used = True; db.commit(); return member
AcceptCommit(a) ==
    /\ Acc(a).at = "found"
    /\ workspace_members' =
          Append(workspace_members,
                 [user_id |-> Acc(a).user_id,
                  workspace_id |-> invitations[Get(Acc(a).invitation)].workspace_id,
                  role |-> invitations[Get(Acc(a).invitation)].role])
    /\ invitations' = [invitations EXCEPT ![Get(Acc(a).invitation)].used = TRUE]
    /\ accept_req' = [accept_req EXCEPT ![a].at = "done",
                                        ![a].status = Some(200),
                                        ![a].member =
                                            Some(Len(workspace_members) + 1)]
    /\ UNCHANGED <<engineVars, matcherVars, concurrentVars, storeVars, now>>

NextAccept ==
    \/ Tick
    \/ CreateInvitation
    \/ \E a \in AcceptRequests :
          \/ AcceptStart(a)
          \/ AcceptQuery(a)
          \/ AcceptCommit(a)

SpecAccept == InitSave /\ [][NextAccept]_vars

(***************************************************************************)
(* Properties                                                              *)
(***************************************************************************)
Returned == pc \in {"returned", "responded"}

\* the entries of the returned dict
Entries == {Get(mapping)[i] : i \in 1..Len(Get(mapping))}

IsField(v, ftype) == v # None /\ Get(v) \in Range(AllFields(ftype))

\* the reply was parsed into a JSON object and the loop ran without raising
Suggested == exc = None /\ ai_map # None /\ Get(ai_map).type = "object"

\* the suggestion's value for col is a candidate field
Accepted(col) ==
    Suggested /\ IsField(AiGet(Get(ai_map).members, col), file_type)

\* C1: every value of the returned mapping is a member of required +
\* optional of the declared category's taxonomy.
C1_Validity ==
    (Returned /\ file_type \in Categories)
        => \A e \in Entries : IsField(e[2], file_type)

\* C2: for a non-empty column list and a valid category the returned
\* mapping's key set is the set of the input columns and no value is null or
\* empty, whatever the external suggestion does.
C2_Totality ==
    (Returned /\ columns # <<>> /\ file_type \in Categories)
        => /\ Keys(Get(mapping)) = Range(columns)
           /\ \A e \in Entries : e[2] # None /\ Get(e[2]) # ""

\* a suggestion with a key that is no column, without one of the columns, and
\* with a null for another column
C2_Witness ==
    /\ Returned /\ file_type \in Categories /\ Suggested
    /\ ExtraKey \in DOMAIN Get(ai_map).members
    /\ \E c \in Range(columns) : c \notin DOMAIN Get(ai_map).members
    /\ \E c \in Range(columns) :
         c \in DOMAIN Get(ai_map).members /\ Get(ai_map).members[c] = None

\* C3: _best_match returns a member of candidate_fields, for every column
\* name, candidate list and sample.
C3_MatcherContract ==
    bm_pc = "returned" => Get(bm_result) \in Range(Get(bm_args).fields)

\* C4: a column whose suggested value is a candidate field is mapped to that
\* value; any other column is mapped to the Matcher's result; so no value is
\* null or an unknown field.
C4_ValidateAndFallback ==
    (Returned /\ Suggested /\ file_type \in Categories)
        => \A c \in Range(columns) :
             LET v == Lookup(Get(mapping), c)
             IN  /\ Accepted(c) => v = AiGet(Get(ai_map).members, c)
                 /\ ~Accepted(c) =>
                      v = Some(BestMatch(c, file_type, sample_data))
                 /\ IsField(v, file_type)

\* C5: when the external call raises or its text is no JSON object, the
\* invocation still returns, and returns the mapping of the pure fallback.
C5_FailureIsolation ==
    (Returned /\ exc # None)
        => mapping = Some(_fallback_mapping(columns, file_type, sample_data))

\* a JSON list was received for a non-empty file with samples
C5_Witness ==
    /\ Returned /\ exc = Some("AttributeError")
    /\ columns # <<>> /\ sample_data # None /\ DOMAIN Get(sample_data) # {}

\* C6 as claimed: the mapping has as many entries as there are input columns,
\* also when a column name occurs more than once.
C6_OutputSize ==
    Returned => Len(Get(mapping)) = Len(columns)

\* C6 as amended: the mapping has as many entries as there are distinct input
\* column names.
C6_DistinctOutputSize ==
    Returned => Len(Get(mapping)) = Cardinality(Range(columns))

\* the same column name twice
C6_Witness ==
    Returned /\ Len(columns) = 2 /\ columns[1] = columns[2]

\* C7: with a category that is neither "buyers" nor "visitors" no mapping is
\* produced.
C7_UnknownCategoryFails ==
    (Returned /\ file_type \notin Categories) => mapping = None

\* C9 as claimed: the scenario's columns map to email, order_date, revenue.
C9_Scenario ==
    (Returned /\ ~GEMINI_API_KEY /\ columns = ScenarioColumns
       /\ file_type = "buyers" /\ sample_data = None)
        => mapping = Some(<< <<"Email Address", Some("email")>>,
                             <<"Purchase Date", Some("order_date")>>,
                             <<"Total $", Some("revenue")>> >>)

\* C9 as amended: the scenario's columns map to email, order_date, tax.
C9_ScenarioTax ==
    (Returned /\ ~GEMINI_API_KEY /\ columns = ScenarioColumns
       /\ file_type = "buyers" /\ sample_data = None)
        => mapping = Some(<< <<"Email Address", Some("email")>>,
                             <<"Purchase Date", Some("order_date")>>,
                             <<"Total $", Some("tax")>> >>)

C9_Witness ==
    /\ Returned /\ ~GEMINI_API_KEY /\ columns = ScenarioColumns
    /\ file_type = "buyers" /\ sample_data = None

\* the columns whose field came from an accepted external suggestion
AcceptedCount == Cardinality({i \in 1..Len(columns) : Accepted(columns[i])})

\* C10: the confidence is accepted suggestions / total columns * 100, rounded
\* to one decimal (here in tenths of a percent), so 0 without a suggestion.
C10_Confidence ==
    pc = "responded"
        => Get(response).confidence = RoundTenths(AcceptedCount, Len(columns))


(***************************************************************************)
(* Properties of _best_match                                               *)
(***************************************************************************)
MatchReturned == bm_pc = "returned"

\* similarity of the normalized column name and the normalized field
Score(col, f) == ratio(Clean(col), Clean(f))

\* positions of the candidates whose similarity exceeds the threshold
Crossing(col, fields) ==
    {i \in 1..Len(fields) : Greater(Score(col, fields[i]), Threshold)}

\* the lowercased text of the column's sample values (up to HeadCount
\* non-null values), "" when there is none
SampleText(col, sample) ==
    IF sample = None \/ col \notin DOMAIN Get(sample) THEN ""
    ELSE lower(join(" ", head(dropna(Get(sample)[col]), HeadCount)))

\* C11: when no candidate crosses the threshold, the column's sample values
\* contain "@" and email is a candidate, _best_match returns email,
\* whatever the keywords and the best fuzzy score say.
C11_SniffingOverridesName ==
    LET col == Get(bm_args).col
        fields == Get(bm_args).fields
    IN  (/\ MatchReturned
         /\ Crossing(col, fields) = {}
         /\ Contains(SampleText(col, Get(bm_args).sample), "@")
         /\ "email" \in Range(fields))
            => Get(bm_result) = "email"

\* "cell_no" holds addresses: the keyword layer alone would say phone
C11_Witness ==
    /\ MatchReturned
    /\ Get(bm_args).col = "cell_no"
    /\ Get(bm_args).fields = AllFields("buyers")
    /\ Contains(SampleText("cell_no", Get(bm_args).sample), "@")
    /\ Get(bm_result) = "email"

\* what content inference yields for the column: None without a frame or
\* without the column in it
Sniffed(col, fields, sample) ==
    IF sample = None \/ col \notin DOMAIN Get(sample) THEN None
    ELSE _infer_content(Get(sample)[col], fields)

\* the i-th entry of the keyword table names a candidate and one of its
\* keywords is a substring of the normalized column name
KeywordHit(i, col, fields) ==
    /\ boosts[i][1] \in Range(fields)
    /\ \E kw \in Range(boosts[i][2]) : Contains(Clean(col), kw)

\* C12: when no candidate crosses the threshold and content sniffing yields
\* nothing, _best_match returns the field of the first entry of the keyword
\* table, in declaration order, that hits.
C12_KeywordFallback ==
    LET col == Get(bm_args).col
        fields == Get(bm_args).fields
    IN  (/\ MatchReturned
         /\ Crossing(col, fields) = {}
         /\ Sniffed(col, fields, Get(bm_args).sample) = None)
            => \A i \in 1..Len(boosts) :
                 (/\ KeywordHit(i, col, fields)
                  /\ \A j \in 1..(i - 1) : ~KeywordHit(j, col, fields))
                     => Get(bm_result) = boosts[i][1]

\* "household_income" hits the entries of revenue and of income; its frame
\* has the column but no usable value
C12_Witness ==
    /\ MatchReturned
    /\ Get(bm_args).col = "household_income"
    /\ Get(bm_args).fields = AllFields("buyers")
    /\ Get(bm_args).sample # None
    /\ "household_income" \in DOMAIN Get(Get(bm_args).sample)
    /\ Sniffed("household_income", AllFields("buyers"), Get(bm_args).sample) = None
    /\ Get(bm_result) = "revenue"

\* C13: a column named exactly "email" maps to email for both categories,
\* whatever its sample values contain.
C13_ThresholdShortCircuit ==
    (/\ MatchReturned
     /\ Get(bm_args).col = "email"
     /\ Get(bm_args).fields \in {AllFields(c) : c \in Categories})
        => Get(bm_result) = "email"

\* the values of the column are URLs and page_url is a candidate
C13_Witness ==
    /\ MatchReturned
    /\ Get(bm_args).col = "email"
    /\ Get(bm_args).fields = AllFields("visitors")
    /\ Get(bm_args).sample = Some([c \in {"email"} |-> UrlSeries])
    /\ Get(bm_result) = "email"

(***************************************************************************)
(* Properties of suggest_column_mapping, continued                         *)
(***************************************************************************)
\* C14: with an empty column list the returned mapping is empty, for any
\* category, with or without the credential, whatever the external call
\* does.
C14_EmptyInput ==
    (Returned /\ columns = <<>>) => mapping = Some(<<>>)

\* the reply for an empty column list was an object with a key of its own
C14_Witness ==
    /\ Returned /\ columns = <<>> /\ GEMINI_API_KEY /\ Suggested
    /\ ExtraKey \in DOMAIN Get(ai_map).members

\* C15: every invocation eventually returns a mapping, also when the
\* collaborator never responds.
C15_Termination == (pc = "called") ~> Returned

\* what the invocation returns when it runs alone with the same arguments
\* and the same behaviour of the collaborator
Alone(fr) ==
    IF ~GEMINI_API_KEY \/ fr.text = None
    THEN _fallback_mapping(fr.cols, fr.ftype, fr.sample)
    ELSE HandleReply(Get(fr.text), fr.cols, fr.ftype, fr.sample).result

\* C16: under every interleaving of the steps of two concurrent invocations
\* each returns the mapping it returns when run alone.
C16_Independence ==
    \A inv \in Invocations :
        Frame(inv).at = "returned" => Frame(inv).result = Some(Alone(Frame(inv)))

\* both ran their validation loop, for different files and on different
\* suggestions
C16_Witness ==
    /\ \A inv \in Invocations :
          /\ Frame(inv).at = "returned"
          /\ Frame(inv).parsed # None /\ Frame(inv).error = None
    /\ Frame("i1").cols # Frame("i2").cols
    /\ Frame("i1").parsed # Frame("i2").parsed
    /\ Frame("i1").result # Frame("i2").result

(***************************************************************************)
(* Properties of the stored mappings                                       *)
(***************************************************************************)
\* the dict d as json.loads returns it
Loaded(d) == Some(JsonObject([k \in Keys(d) |-> Lookup(d, k)]))

\* C17: when a save for (workspace, category) commits after an earlier one,
\* get_column_mapping returns exactly the mapping just saved, and there is a
\* single stored record for (workspace, category).
C17_Superseded ==
    [][\A r \in SaveRequests :
          SaveCommit(r) =>
             /\ get_column_mapping(column_mappings', Req(r).workspace_id,
                                   Req(r).ftype) = {Loaded(Req(r).saved)}
             /\ Cardinality(Matching(column_mappings', Req(r).workspace_id,
                                     Req(r).ftype)) = 1]_vars

\* two saves for the same workspace and category are done, one with a key
\* the other lacks, and one record is stored for them
C17_Witness ==
    /\ Req("r1").at = "done" /\ Req("r2").at = "done"
    /\ Req("r1").workspace_id = Req("r2").workspace_id
    /\ Req("r1").ftype = Req("r2").ftype
    /\ Keys(Req("r1").saved) # Keys(Req("r2").saved)
    /\ Len(column_mappings) = 1

\* the dict stored in the row with this id
Stored(id) == Get(json_loads(column_mappings[id].mapping_json)).members

StoredShape ==
    \A id \in 1..Len(column_mappings) :
        /\ column_mappings[id].ftype \in Categories
        /\ DOMAIN Stored(id) # {}

KeywordHits(col, fields) == {i \in 1..Len(boosts) : KeywordHit(i, col, fields)}

\* the candidates no other candidate scores above
BestFuzzy(col, fields) ==
    {f \in Range(fields) :
        \A g \in Range(fields) : ~Greater(Score(col, g), Score(col, f))}

\* C19: a field that crosses the threshold is returned whatever the samples
\* and keywords say; else a content hit whatever the keywords say; else a
\* keyword hit whatever the best fuzzy score is; the best fuzzy field only
\* when the three layers before yield nothing.
C19_LayerOrder ==
    LET col == Get(bm_args).col
        fields == Get(bm_args).fields
        sniffed == Sniffed(col, fields, Get(bm_args).sample)
    IN  MatchReturned =>
          IF Crossing(col, fields) # {}
          THEN Get(bm_result) \in {fields[i] : i \in Crossing(col, fields)}
          ELSE IF sniffed # None
          THEN Get(bm_result) = Get(sniffed)
          ELSE IF KeywordHits(col, fields) # {}
          THEN Get(bm_result) \in {boosts[i][1] : i \in KeywordHits(col, fields)}
          ELSE Get(bm_result) \in BestFuzzy(col, fields)

\* "Email Address" hits the keywords of email and address and holds URLs:
\* the content hit is returned
C19_Witness ==
    /\ MatchReturned
    /\ Get(bm_args).col = "Email Address"
    /\ Get(bm_args).fields = AllFields("visitors")
    /\ Get(bm_args).sample = Some([c \in {"Email Address"} |-> UrlSeries])
    /\ KeywordHits("Email Address", AllFields("visitors")) # {}
    /\ Get(bm_result) = "page_url"

\* C20: when some candidate crosses the threshold, _best_match returns the
\* first that does in the order of the candidate list, even when one after
\* it scores higher.
C20_GreedyThreshold ==
    LET col == Get(bm_args).col
        fields == Get(bm_args).fields
    IN  (MatchReturned /\ Crossing(col, fields) # {})
            => Get(bm_result) = fields[Min(Crossing(col, fields))]

\* "utm_campaign": campaign crosses the threshold before the exact match
C20_Witness ==
    /\ MatchReturned
    /\ Get(bm_args).col = "utm_campaign"
    /\ Get(bm_args).fields = AllFields("visitors")
    /\ Get(bm_result) = "campaign"
    /\ \E i \in Crossing("utm_campaign", AllFields("visitors")) :
          /\ ~Greater(<<1, 1>>, Score("utm_campaign", AllFields("visitors")[i]))
          /\ i > Min(Crossing("utm_campaign", AllFields("visitors")))

\* C21: when no candidate crosses the threshold, content sniffing yields
\* nothing and no keyword entry hits, _best_match returns the candidate with
\* the highest similarity, the first in the order of the list among equals.
C21_DefaultLayer ==
    LET col == Get(bm_args).col
        fields == Get(bm_args).fields
    IN  (/\ MatchReturned
         /\ Crossing(col, fields) = {}
         /\ Sniffed(col, fields, Get(bm_args).sample) = None
         /\ KeywordHits(col, fields) = {})
            => \E scores \in {[i \in 1..Len(fields) |-> Score(col, fields[i])]} :
                 Get(bm_result) =
                    fields[Min({i \in 1..Len(fields) :
                                  \A j \in 1..Len(fields) :
                                     ~Greater(scores[j], scores[i])})]

\* "Total $" with values that match no pattern: tax has the best score, 1/2
C21_Witness ==
    /\ MatchReturned
    /\ Get(bm_args).col = "Total $"
    /\ Get(bm_args).fields = AllFields("buyers")
    /\ Get(bm_args).sample = Some([c \in {"Total $"} |-> LateEmailSeries])
    /\ Get(bm_result) = "tax"
    /\ Score("Total $", "tax") = <<4, 8>>

\* C22: over the lowercased text of the first 5 non-null values, the first
\* rule in the order email, phone, date, money, URL whose pattern matches
\* and whose target field is a candidate decides what content sniffing
\* yields.
C22_RulePriority ==
    LET col == Get(bm_args).col
        fields == Get(bm_args).fields
        text == SampleText(col, Get(bm_args).sample)
        Url == Contains(text, "http") \/ Contains(text, "www.")
        Date == re_search(DatePattern, text)
        FirstRule ==
            IF Contains(text, "@") /\ "email" \in Range(fields)
            THEN Some("email")
            ELSE IF re_search(PhonePattern, text) /\ "phone" \in Range(fields)
            THEN Some("phone")
            ELSE IF Date /\ "order_date" \in Range(fields)
            THEN Some("order_date")
            ELSE IF Date /\ "visit_date" \in Range(fields)
            THEN Some("visit_date")
            ELSE IF re_search(MoneyPattern, text) /\ "revenue" \in Range(fields)
            THEN Some("revenue")
            ELSE IF Url /\ "page_url" \in Range(fields)
            THEN Some("page_url")
            ELSE IF Url /\ "referrer" \in Range(fields)
            THEN Some("referrer")
            ELSE None
    IN  (MatchReturned /\ Crossing(col, fields) = {} /\ text # "")
            => /\ Sniffed(col, fields, Get(bm_args).sample) = FirstRule
               /\ FirstRule # None => Get(bm_result) = Get(FirstRule)

\* C23: with no sample data, two column names that are equal after
\* lowercasing and removing every character outside a-z and 0-9 are mapped
\* by _best_match to the same field, for every candidate list.
C23_NormalizationInvariance ==
    LET col == Get(bm_args).col
        fields == Get(bm_args).fields
        Normalized(name) == StripNonAlnum(lower(name))
    IN  (MatchReturned /\ Get(bm_args).sample = None)
            => \A other \in MatchColumns :
                  Normalized(other) = Normalized(col)
                      => _best_match(other, fields, None) = Get(bm_result)

\* "E-Mail_Address" and "EMAILADDRESS" both map to email
C23_Witness ==
    /\ MatchReturned
    /\ Get(bm_args).col = "E-Mail_Address"
    /\ Get(bm_args).sample = None
    /\ Get(bm_args).fields = AllFields("buyers")
    /\ Get(bm_result) = "email"
    /\ StripNonAlnum(lower("EMAILADDRESS")) = Clean("E-Mail_Address")
    /\ "E-Mail_Address" # "EMAILADDRESS"
    /\ _best_match("EMAILADDRESS", AllFields("buyers"), None) = "email"

\* C24: when the sample table is absent, or lacks the column, or the
\* column's values are all null, _best_match returns what the name alone
\* gives: the first candidate that crosses the threshold, else the first
\* keyword entry that hits, else the first candidate with the best score.
C24_SamplesOptional ==
    LET col == Get(bm_args).col
        fields == Get(bm_args).fields
        sample == Get(bm_args).sample
        NoUsableSample ==
            \/ sample = None
            \/ col \notin DOMAIN Get(sample)
            \/ dropna(Get(sample)[col]) = <<>>
    IN  (MatchReturned /\ NoUsableSample)
            => \E scores \in {[i \in 1..Len(fields) |-> Score(col, fields[i])]} :
                 \E crossing \in {{i \in 1..Len(fields) :
                                      Greater(scores[i], Threshold)}} :
                   Get(bm_result) =
                      IF crossing # {} THEN fields[Min(crossing)]
                      ELSE IF KeywordHits(col, fields) # {}
                      THEN boosts[Min(KeywordHits(col, fields))][1]
                      ELSE fields[Min({i \in 1..Len(fields) :
                                         \A j \in 1..Len(fields) :
                                            ~Greater(scores[j], scores[i])})]

\* "website" with two null values: no content hit, the best score decides
C24_Witness ==
    /\ MatchReturned
    /\ Get(bm_args).col = "website"
    /\ Get(bm_args).fields = AllFields("visitors")
    /\ Get(bm_args).sample = Some([c \in {"website"} |-> <<None, None>>])
    /\ Get(bm_result) = _best_match("website", AllFields("visitors"), None)

\* C25: one invocation issues at most one request to the external
\* collaborator, none after a failure, and none at all without a
\* credential: then it returns the heuristic mapping directly.
C25_ExternalCallCount ==
    /\ requests <= 1
    /\ pc \in {"idle", "called"} => requests = 0
    /\ pc = "waiting" => requests = 1
    /\ exc # None => requests = 1 /\ pc \in {"returned", "responded"}
    /\ ~GEMINI_API_KEY =>
          /\ requests = 0
          /\ pc # "waiting"
          /\ mapping # None =>
                mapping = Some(_fallback_mapping(columns, file_type, sample_data))

\* the one request failed and the invocation returned
C25_Witness ==
    /\ pc = "returned"
    /\ GEMINI_API_KEY
    /\ exc # None
    /\ requests = 1
    /\ columns # <<>>

\* C26: for each category, a column named exactly as a field of the
\* category's taxonomy is mapped to that field.
C26_CanonicalSelf ==
    MatchReturned => Get(bm_result) = Get(bm_args).col

\* C26, amended: every field of a taxonomy maps to itself except the
\* visitors field utm_campaign, which maps to campaign: campaign comes first
\* in the enumeration and its similarity to utm_campaign, 16/19, exceeds the
\* threshold.
C26_CanonicalSelfExcept ==
    LET col == Get(bm_args).col
    IN  MatchReturned
           => /\ col # "utm_campaign" => Get(bm_result) = col
              /\ col = "utm_campaign" => Get(bm_result) = "campaign"

C26_Witness ==
    /\ MatchReturned
    /\ Get(bm_args).col = "utm_campaign"
    /\ Get(bm_args).fields = AllFields("visitors")
    /\ Get(bm_args).sample = None
    /\ Score("utm_campaign", "campaign") = <<16, 19>>
    /\ Get(bm_result) = "campaign"

\* C27: when revenue is a candidate and the keyword layer decides, income is
\* returned only for a name that contains "salary" and none of revenue's
\* keywords, net_worth only for one that contains "net" and none of
\* revenue's keywords; "household_income" is mapped to revenue.
C27_KeywordShadowing ==
    LET col == Get(bm_args).col
        fields == Get(bm_args).fields
        RevenueKeyword ==
            \E k \in {"revenue", "worth", "income", "amount", "price"} :
                Contains(Clean(col), k)
    IN  (/\ MatchReturned
         /\ "revenue" \in Range(fields)
         /\ Crossing(col, fields) = {}
         /\ Sniffed(col, fields, Get(bm_args).sample) = None
         /\ KeywordHits(col, fields) # {})
            => /\ Get(bm_result) = "income"
                    => Contains(Clean(col), "salary") /\ ~RevenueKeyword
               /\ Get(bm_result) = "net_worth"
                    => Contains(Clean(col), "net") /\ ~RevenueKeyword
               /\ col = "household_income" => Get(bm_result) = "revenue"

\* "household_income" among the buyers fields, where income is a candidate
C27_Witness ==
    /\ MatchReturned
    /\ Get(bm_args).col = "household_income"
    /\ Get(bm_args).fields = AllFields("buyers")
    /\ Get(bm_args).sample = None
    /\ Crossing("household_income", AllFields("buyers")) = {}
    /\ "income" \in Range(AllFields("buyers"))
    /\ Get(bm_result) = "revenue"

\* C28: a column whose name has no ASCII letter or digit, with no usable
\* sample values, scores 0 against every candidate, hits no keyword and is
\* mapped to the first candidate: email for both categories.
C28_NoAsciiLetterOrDigit ==
    LET col == Get(bm_args).col
        fields == Get(bm_args).fields
        sample == Get(bm_args).sample
        NoLetterOrDigit ==
            \A i \in 1..Len(col) :
                ~CharIn(SubSeq(col, i, i), LowerCase \o UpperCase \o Digits)
        NoUsableSample ==
            \/ sample = None
            \/ col \notin DOMAIN Get(sample)
            \/ dropna(Get(sample)[col]) = <<>>
    IN  (MatchReturned /\ NoLetterOrDigit /\ NoUsableSample)
            => /\ Clean(col) = ""
               /\ \A i \in 1..Len(fields) : Score(col, fields[i])[1] = 0
               /\ KeywordHits(col, fields) = {}
               /\ Get(bm_result) = fields[1]
               /\ (\E ftype \in Categories : fields = AllFields(ftype))
                     => Get(bm_result) = "email"

\* C28, amended: a column whose normalized name (lowercased, then stripped
\* of every character outside a-z and 0-9) is empty, with no usable sample
\* values, scores 0 against every candidate, hits no keyword and is mapped
\* to the first candidate: email for both categories.
C28_EmptyNormalizedName ==
    LET col == Get(bm_args).col
        fields == Get(bm_args).fields
        sample == Get(bm_args).sample
        NoUsableSample ==
            \/ sample = None
            \/ col \notin DOMAIN Get(sample)
            \/ dropna(Get(sample)[col]) = <<>>
    IN  (MatchReturned /\ StripNonAlnum(lower(col)) = "" /\ NoUsableSample)
            => /\ \A i \in 1..Len(fields) : Score(col, fields[i])[1] = 0
               /\ KeywordHits(col, fields) = {}
               /\ Get(bm_result) = fields[1]
               /\ (\E ftype \in Categories : fields = AllFields(ftype))
                     => Get(bm_result) = "email"

\* "###" among the visitors fields, its two sample values null
C28_Witness ==
    /\ MatchReturned
    /\ Get(bm_args).col = "###"
    /\ Get(bm_args).fields = AllFields("visitors")
    /\ Get(bm_args).sample = Some([c \in {"###"} |-> <<None, None>>])
    /\ Get(bm_result) = "email"

\* C29: whatever the interleaving of the saves for one (workspace,
\* category), once a save is done there is exactly one record for that key
\* and get_column_mapping has one possible answer, the mapping of one of the
\* saves that are done.
C29_SingleRecord ==
    \A r \in SaveRequests :
        Req(r).at = "done" =>
            /\ Cardinality(Matching(column_mappings, Req(r).workspace_id,
                                    Req(r).ftype)) = 1
            /\ Cardinality(get_column_mapping(column_mappings,
                              Req(r).workspace_id, Req(r).ftype)) = 1
            /\ get_column_mapping(column_mappings, Req(r).workspace_id,
                                  Req(r).ftype)
                  \subseteq {Loaded(Req(q).saved) :
                               q \in {q \in SaveRequests :
                                        /\ Req(q).at = "done"
                                        /\ Req(q).workspace_id = Req(r).workspace_id
                                        /\ Req(q).ftype = Req(r).ftype}}

\* C30: in every interleaving of the accept requests at most one
\* WorkspaceMember is created per invitation token, and it is created for an
\* invitation that is then marked used.
C30_SingleUse ==
    /\ \A token \in Tokens :
          Cardinality({a \in AcceptRequests :
                          Acc(a).member # None /\ Acc(a).token = token}) <= 1
    /\ \A a \in AcceptRequests :
          Acc(a).member # None => invitations[Get(Acc(a).invitation)].used

====
